---- MODULE Spec2Model ----
(***************************************************************************)
(* Model of streamlit_app.py: the injury-risk engine, the match-day-aware  *)
(* session planner, the per-row pipeline, the risk-driver list of the      *)
(* selected player and the live-refresh tail of the script.                *)
(*                                                                         *)
(* Units.  All quantities are integers.                                    *)
(*   acwr, fatigue_z, soreness_z : hundredths (1.6 is 160, 1.0 is 100)     *)
(*   high_speed_distance, accelerations, decelerations : as in the source  *)
(*   risk : 1/40000 (1.0 is 40000, 0.40 is 16000, 0.01 of a z-score times  *)
(*          0.12 is 48).  Every additive term is a multiple of 4, so the   *)
(*          multiplication by 1.25 is exact.                               *)
(*   refresh_rate, slept : seconds                                         *)
(* Labels are the source's strings without their leading emoji.            *)
(***************************************************************************)
EXTENDS Integers, Sequences, FiniteSets, TLC

VARIABLES
    live_mode,         \* sidebar checkbox "Live Training Mode"
    refresh_rate,      \* sidebar slider, seconds
    days_to_match,     \* sidebar selectbox
    match_congestion,  \* sidebar checkbox "Fixture Congestion"
    rtp_players,       \* sidebar multiselect: set of player numbers
    df,                \* the telemetry frame: sequence of rows
    i,                 \* position of the loop `for _, r in df.iterrows()`
    risk,              \* the loop's local `risk` (NoValue before it is bound)
    risks,             \* list `risks` (risk * 100 per row)
    plans,             \* list `plans` (one 3-tuple per row)
    columns,           \* the four columns added to df after the loop
    player,            \* the player picked in "Select Player" (0: none yet)
    drivers,           \* list `drivers`
    written,           \* what the risk-driver section wrote to the page
    slept,             \* seconds spent in time.sleep during this run
    pc                 \* position of the script run

vars == <<live_mode, refresh_rate, days_to_match, match_congestion, rtp_players,
          df, i, risk, risks, plans, columns, player, drivers, written, slept, pc>>

widgets == <<live_mode, refresh_rate, days_to_match, match_congestion, rtp_players>>

----------------------------------------------------------------------------
\* Bounds of the model

\* Squad size used for checking the script (the source generates 25 rows).
NumPlayers == 2

\* Largest z-score among the inputs tried, in whole units (MaxZ * 100 hundredths).
MaxZ == 3

----------------------------------------------------------------------------
\* Program constants

\* 1.0 in risk units: the clamp of `return min(risk, 1.0)`.
One == 40000

NoValue == -1

Max(a, b) == IF b > a THEN b ELSE a

Min(a, b) == IF b < a THEN b ELSE a

DaysOptions == 0 .. 6

RefreshRates == {10, 30, 120}

----------------------------------------------------------------------------
\* INJURY RISK ENGINE

\* compute_injury_risk with the return-to-play factor applied before the
\* congestion term instead of after it.
compute_injury_risk_rtp_early(acwr, fatigue, soreness, hsr, acc, dec, congestion, rtp) ==
    LET r1 == IF acwr > 160 THEN 16000
              ELSE IF acwr > 130 THEN 10000
              ELSE IF acwr < 80 THEN 4000
              ELSE 0
        r2 == r1 + Max(0, fatigue) * 48
        r3 == r2 + Max(0, soreness) * 60
        r4 == r3 + (IF hsr > 1200 THEN 8000 ELSE IF hsr > 800 THEN 4000 ELSE 0)
        r5 == r4 + (IF acc + dec > 140 THEN 6000
                    ELSE IF acc + dec > 100 THEN 3200
                    ELSE 0)
        r6 == IF rtp THEN (r5 * 125) \div 100 ELSE r5
        r7 == r6 + (IF congestion THEN 6000 ELSE 0)
    IN  Min(r7, One)

\* compute_injury_risk without the final clamp.
compute_injury_risk_no_clamp(acwr, fatigue, soreness, hsr, acc, dec, congestion, rtp) ==
    LET r1 == IF acwr > 160 THEN 16000
              ELSE IF acwr > 130 THEN 10000
              ELSE IF acwr < 80 THEN 4000
              ELSE 0
        r2 == r1 + Max(0, fatigue) * 48
        r3 == r2 + Max(0, soreness) * 60
        r4 == r3 + (IF hsr > 1200 THEN 8000 ELSE IF hsr > 800 THEN 4000 ELSE 0)
        r5 == r4 + (IF acc + dec > 140 THEN 6000
                    ELSE IF acc + dec > 100 THEN 3200
                    ELSE 0)
        r6 == r5 + (IF congestion THEN 6000 ELSE 0)
    IN  IF rtp THEN (r6 * 125) \div 100 ELSE r6

\* compute_injury_risk with the two high-speed-running tier values exchanged.
compute_injury_risk_hsr_swapped(acwr, fatigue, soreness, hsr, acc, dec, congestion, rtp) ==
    LET r1 == IF acwr > 160 THEN 16000
              ELSE IF acwr > 130 THEN 10000
              ELSE IF acwr < 80 THEN 4000
              ELSE 0
        r2 == r1 + Max(0, fatigue) * 48
        r3 == r2 + Max(0, soreness) * 60
        r4 == r3 + (IF hsr > 1200 THEN 4000 ELSE IF hsr > 800 THEN 8000 ELSE 0)
        r5 == r4 + (IF acc + dec > 140 THEN 6000
                    ELSE IF acc + dec > 100 THEN 3200
                    ELSE 0)
        r6 == r5 + (IF congestion THEN 6000 ELSE 0)
        r7 == IF rtp THEN (r6 * 125) \div 100 ELSE r6
    IN  Min(r7, One)

\* compute_injury_risk with the two upper ACWR tier values exchanged.
compute_injury_risk_acwr_swapped(acwr, fatigue, soreness, hsr, acc, dec, congestion, rtp) ==
    LET r1 == IF acwr > 160 THEN 10000
              ELSE IF acwr > 130 THEN 16000
              ELSE IF acwr < 80 THEN 4000
              ELSE 0
        r2 == r1 + Max(0, fatigue) * 48
        r3 == r2 + Max(0, soreness) * 60
        r4 == r3 + (IF hsr > 1200 THEN 8000 ELSE IF hsr > 800 THEN 4000 ELSE 0)
        r5 == r4 + (IF acc + dec > 140 THEN 6000
                    ELSE IF acc + dec > 100 THEN 3200
                    ELSE 0)
        r6 == r5 + (IF congestion THEN 6000 ELSE 0)
        r7 == IF rtp THEN (r6 * 125) \div 100 ELSE r6
    IN  Min(r7, One)

\* compute_injury_risk with non-strict ACWR comparisons (>= 1.6, >= 1.3, <= 0.8).
compute_injury_risk_acwr_inclusive(acwr, fatigue, soreness, hsr, acc, dec, congestion, rtp) ==
    LET r1 == IF acwr >= 160 THEN 16000
              ELSE IF acwr >= 130 THEN 10000
              ELSE IF acwr <= 80 THEN 4000
              ELSE 0
        r2 == r1 + Max(0, fatigue) * 48
        r3 == r2 + Max(0, soreness) * 60
        r4 == r3 + (IF hsr > 1200 THEN 8000 ELSE IF hsr > 800 THEN 4000 ELSE 0)
        r5 == r4 + (IF acc + dec > 140 THEN 6000
                    ELSE IF acc + dec > 100 THEN 3200
                    ELSE 0)
        r6 == r5 + (IF congestion THEN 6000 ELSE 0)
        r7 == IF rtp THEN (r6 * 125) \div 100 ELSE r6
    IN  Min(r7, One)

\* def compute_injury_risk(acwr, fatigue, soreness, hsr, acc, dec, congestion, rtp)
compute_injury_risk(acwr, fatigue, soreness, hsr, acc, dec, congestion, rtp) ==
    LET \* ACWR: +0.40 / +0.25 / +0.10
        r1 == IF acwr > 160 THEN 16000
              ELSE IF acwr > 130 THEN 10000
              ELSE IF acwr < 80 THEN 4000
              ELSE 0
        \* Wellness: max(0, fatigue) * 0.12, max(0, soreness) * 0.15
        r2 == r1 + Max(0, fatigue) * 48
        r3 == r2 + Max(0, soreness) * 60
        \* High-speed running: +0.20 / +0.10
        r4 == r3 + (IF hsr > 1200 THEN 8000 ELSE IF hsr > 800 THEN 4000 ELSE 0)
        \* Acc / Dec: +0.15 / +0.08
        r5 == r4 + (IF acc + dec > 140 THEN 6000
                    ELSE IF acc + dec > 100 THEN 3200
                    ELSE 0)
        \* Congestion: +0.15, then RTP: * 1.25
        r6 == r5 + (IF congestion THEN 6000 ELSE 0)
        r7 == IF rtp THEN (r6 * 125) \div 100 ELSE r6
    IN  Min(r7, One)

----------------------------------------------------------------------------
\* SESSION PLANNING ENGINE (MD-AWARE)

\* session_plan with the return-to-play test placed before the match-day test.
session_plan_rtp_first(rk, rtp, dtm) ==
    IF rtp THEN <<"Return-to-Play", "Low-Moderate", "< 60% HSR">>
    ELSE IF dtm = 0 THEN <<"MATCH DAY", "Game Load", "Match Demands">>
    ELSE IF dtm = 1 THEN <<"MD-1 Activation", "Very Low", "< 50% HSR">>
    ELSE IF dtm = 2 THEN
        IF rk >= 22000 THEN <<"MD-2 Modified", "-30% Load", "< 60% HSR">>
        ELSE <<"MD-2 Tactical", "Moderate", "< 75% HSR">>
    ELSE IF rk >= 30000 THEN <<"Recovery / Medical", "Very Low", "None">>
    ELSE IF rk >= 22000 THEN <<"Modified Training", "-30%", "< 70% HSR">>
    ELSE IF rk >= 14000 THEN <<"Normal Training", "Normal", "< 85% HSR">>
    ELSE <<"Full Training", "Full", "No Limit">>

\* session_plan with strict risk comparisons (> for >=).
session_plan_strict(rk, rtp, dtm) ==
    IF dtm = 0 THEN <<"MATCH DAY", "Game Load", "Match Demands">>
    ELSE IF rtp THEN <<"Return-to-Play", "Low-Moderate", "< 60% HSR">>
    ELSE IF dtm = 1 THEN <<"MD-1 Activation", "Very Low", "< 50% HSR">>
    ELSE IF dtm = 2 THEN
        IF rk > 22000 THEN <<"MD-2 Modified", "-30% Load", "< 60% HSR">>
        ELSE <<"MD-2 Tactical", "Moderate", "< 75% HSR">>
    ELSE IF rk > 30000 THEN <<"Recovery / Medical", "Very Low", "None">>
    ELSE IF rk > 22000 THEN <<"Modified Training", "-30%", "< 70% HSR">>
    ELSE IF rk > 14000 THEN <<"Normal Training", "Normal", "< 85% HSR">>
    ELSE <<"Full Training", "Full", "No Limit">>

\* def session_plan(risk, rtp, days_to_match): the 3-tuple
\* (session type, load target, HSR limit).  Thresholds 0.55, 0.75, 0.35.
session_plan(rk, rtp, dtm) ==
    IF dtm = 0 THEN <<"MATCH DAY", "Game Load", "Match Demands">>
    ELSE IF rtp THEN <<"Return-to-Play", "Low-Moderate", "< 60% HSR">>
    ELSE IF dtm = 1 THEN <<"MD-1 Activation", "Very Low", "< 50% HSR">>
    ELSE IF dtm = 2 THEN
        IF rk >= 22000 THEN <<"MD-2 Modified", "-30% Load", "< 60% HSR">>
        ELSE <<"MD-2 Tactical", "Moderate", "< 75% HSR">>
    \* MD-3+
    ELSE IF rk >= 30000 THEN <<"Recovery / Medical", "Very Low", "None">>
    ELSE IF rk >= 22000 THEN <<"Modified Training", "-30%", "< 70% HSR">>
    ELSE IF rk >= 14000 THEN <<"Normal Training", "Normal", "< 85% HSR">>
    ELSE <<"Full Training", "Full", "No Limit">>

----------------------------------------------------------------------------
\* EXPLAINABILITY

\* risk_drivers with the soreness and high-speed flags appended in the
\* opposite order.
risk_drivers_reordered(p) ==
    LET d0 == <<>>
        d1 == IF p.acwr > 130 THEN Append(d0, "Acute workload spike (ACWR)") ELSE d0
        d2 == IF p.fatigue_z > 100 THEN Append(d1, "Elevated fatigue") ELSE d1
        d3 == IF p.high_speed_distance > 800
              THEN Append(d2, "High-speed running exposure") ELSE d2
        d4 == IF p.soreness_z > 100 THEN Append(d3, "Increased muscle soreness") ELSE d3
        d5 == IF p.accelerations + p.decelerations > 120
              THEN Append(d4, "High neuromuscular load") ELSE d4
    IN  d5

\* risk_drivers with the workload flag at the risk engine's upper ACWR tier
\* (acwr > 1.6) instead of acwr > 1.3.
risk_drivers_acwr_upper(p) ==
    LET d0 == <<>>
        d1 == IF p.acwr > 160 THEN Append(d0, "Acute workload spike (ACWR)") ELSE d0
        d2 == IF p.fatigue_z > 100 THEN Append(d1, "Elevated fatigue") ELSE d1
        d3 == IF p.soreness_z > 100 THEN Append(d2, "Increased muscle soreness") ELSE d2
        d4 == IF p.high_speed_distance > 800
              THEN Append(d3, "High-speed running exposure") ELSE d3
        d5 == IF p.accelerations + p.decelerations > 120
              THEN Append(d4, "High neuromuscular load") ELSE d4
    IN  d5

\* The list `drivers` built for the selected row p by the five `if` statements.
risk_drivers(p) ==
    LET d0 == <<>>
        d1 == IF p.acwr > 130 THEN Append(d0, "Acute workload spike (ACWR)") ELSE d0
        d2 == IF p.fatigue_z > 100 THEN Append(d1, "Elevated fatigue") ELSE d1
        d3 == IF p.soreness_z > 100 THEN Append(d2, "Increased muscle soreness") ELSE d2
        d4 == IF p.high_speed_distance > 800
              THEN Append(d3, "High-speed running exposure") ELSE d3
        d5 == IF p.accelerations + p.decelerations > 120
              THEN Append(d4, "High neuromuscular load") ELSE d4
    IN  d5

NoFlags == "No major injury risk flags detected"

\* if drivers: write each; else: write the sentinel.
write_drivers(d) == IF d # <<>> THEN d ELSE <<NoFlags>>

----------------------------------------------------------------------------
\* MOCK GPS DATA

\* One row of the frame.  total_distance, rpe and duration are generated by
\* the source but read by nothing, and are left out.
Row(pl, a, f, s, h, ac, de) ==
    [player |-> pl, acwr |-> a, fatigue_z |-> f, soreness_z |-> s,
     high_speed_distance |-> h, accelerations |-> ac, decelerations |-> de]

\* Telemetry profiles inside the generator's ranges (acwr in 0.7..1.8,
\* high_speed_distance in 300..1499, accelerations and decelerations in
\* 40..94, z-scores normal): <<acwr, fatigue_z, soreness_z, hsd, acc, dec>>.
MockProfiles ==
    { <<100, -50, 0, 500, 45, 45>>,
      <<140, 100, 50, 900, 60, 55>>,
      <<170, 200, 150, 1300, 80, 80>> }

\* def get_mock_gps_data(): every frame of NumPlayers rows it can return,
\* row k being "Player k".
get_mock_gps_data ==
    { [k \in 1 .. NumPlayers |->
          Row(k, g[k][1], g[k][2], g[k][3], g[k][4], g[k][5], g[k][6])] :
      g \in [1 .. NumPlayers -> MockProfiles] }

\* The options of the "Players in RTP" multiselect.
RtpOptions == 1 .. NumPlayers

----------------------------------------------------------------------------
\* The script run

\* State of the script's own names at the top of a run.
FreshRun ==
    /\ df = <<>>
    /\ i = 1
    /\ risk = NoValue
    /\ risks = <<>>
    /\ plans = <<>>
    /\ columns = <<>>
    /\ player = 0
    /\ drivers = <<>>
    /\ written = <<>>
    /\ slept = 0

\* The same, as the effect of starting the script again.
StartRun ==
    /\ df' = <<>>
    /\ i' = 1
    /\ risk' = NoValue
    /\ risks' = <<>>
    /\ plans' = <<>>
    /\ columns' = <<>>
    /\ player' = 0
    /\ drivers' = <<>>
    /\ written' = <<>>
    /\ slept' = 0
    /\ pc' = "generate"

Init ==
    /\ live_mode \in BOOLEAN
    /\ refresh_rate \in RefreshRates
    /\ days_to_match \in DaysOptions
    /\ match_congestion \in BOOLEAN
    /\ rtp_players \in SUBSET RtpOptions
    /\ FreshRun
    /\ pc = "generate"

\* df = get_mock_gps_data(); risks = []; plans = []
Generate ==
    /\ pc = "generate"
    /\ df' \in get_mock_gps_data
    /\ risks' = <<>>
    /\ plans' = <<>>
    /\ i' = 1
    /\ pc' = "compute"
    /\ UNCHANGED <<widgets, risk, columns, player, drivers, written, slept>>

\* Loop body, first statement: risk = compute_injury_risk(r[...], ...)
ComputeRisk ==
    /\ pc = "compute"
    /\ i <= Len(df)
    /\ LET r == df[i] IN
         risk' = compute_injury_risk(r.acwr, r.fatigue_z, r.soreness_z,
                                     r.high_speed_distance, r.accelerations,
                                     r.decelerations, match_congestion,
                                     r.player \in rtp_players)
    /\ pc' = "plan"
    /\ UNCHANGED <<widgets, df, i, risks, plans, columns, player, drivers,
                   written, slept>>

\* Loop body, rest: plan = session_plan(...); risks.append(risk * 100);
\* plans.append(plan); then the next row, or the code after the loop.
PlanSession ==
    /\ pc = "plan"
    /\ LET r == df[i]
           plan == session_plan(risk, r.player \in rtp_players, days_to_match)
       IN  /\ risks' = Append(risks, risk * 100)
           /\ plans' = Append(plans, plan)
    /\ i' = i + 1
    /\ pc' = IF i + 1 <= Len(df) THEN "compute" ELSE "render"
    /\ UNCHANGED <<widgets, df, risk, columns, player, drivers, written, slept>>

\* df["Injury Risk (%)"] = risks and the three plan columns; the squad table;
\* player = st.selectbox("Select Player", df["player"]) and the detail view.
Render ==
    /\ pc = "render"
    /\ columns' = [k \in 1 .. Len(df) |->
                     [risk_pct |-> risks[k], session_type |-> plans[k][1],
                      load_target |-> plans[k][2], hsr_limit |-> plans[k][3]]]
    /\ \E k \in 1 .. Len(df) : player' = df[k].player
    /\ pc' = "explain"
    /\ UNCHANGED <<widgets, df, i, risk, risks, plans, drivers, written, slept>>

\* p = df[df.player == player].iloc[0]
SelectedRow == df[CHOOSE k \in 1 .. Len(df) : df[k].player = player]

\* The risk-driver section: build `drivers`, then write it or the sentinel.
Explain ==
    /\ pc = "explain"
    /\ drivers' = risk_drivers(SelectedRow)
    /\ written' = write_drivers(drivers')
    /\ pc' = "live"
    /\ UNCHANGED <<widgets, df, i, risk, risks, plans, columns, player, slept>>

\* if live_mode: ... ; otherwise the script ends.
LiveRefresh ==
    /\ pc = "live"
    /\ pc' = IF live_mode THEN "sleep" ELSE "done"
    /\ UNCHANGED <<widgets, df, i, risk, risks, plans, columns, player,
                   drivers, written, slept>>

\* time.sleep(refresh_rate)
Sleep ==
    /\ pc = "sleep"
    /\ slept' = slept + refresh_rate
    /\ pc' = "rerun"
    /\ UNCHANGED <<widgets, df, i, risk, risks, plans, columns, player,
                   drivers, written>>

\* Rerun that goes back to the pipeline keeping the run's lists.
RerunKeeping ==
    /\ pc = "rerun"
    /\ pc' = "compute"
    /\ i' = 1
    /\ slept' = 0
    /\ UNCHANGED <<widgets, df, risk, risks, plans, columns, player, drivers,
                   written>>

\* st.rerun(): the script starts again from its first line; the widgets keep
\* their values, every name of the script is bound afresh.
Rerun ==
    /\ pc = "rerun"
    /\ StartRun
    /\ UNCHANGED widgets

\* With the script finished (live mode off), the user changes the sidebar
\* widgets and the script runs again from its first line.
Interact ==
    /\ pc = "done"
    /\ live_mode' \in BOOLEAN
    /\ refresh_rate' \in RefreshRates
    /\ days_to_match' \in DaysOptions
    /\ match_congestion' \in BOOLEAN
    /\ rtp_players' \in SUBSET RtpOptions
    /\ StartRun

Next ==
    \/ Generate
    \/ ComputeRisk
    \/ PlanSession
    \/ Render
    \/ Explain
    \/ LiveRefresh
    \/ Sleep
    \/ Rerun
    \/ Interact

Spec == Init /\ [][Next]_vars

----------------------------------------------------------------------------
\* The functions on arbitrary arguments

\* Argument values on and next to every threshold of the code, of both signs.
AcwrVals == {-50, 79, 80, 130, 131, 160, 170}

FatigueVals == {-(MaxZ * 100), 0, 100, 101, MaxZ * 100}

SorenessVals == {-100, 0, 100, 101}

HsrVals == {-100, 0, 800, 801, 1201}

\* <<acc, dec>> with sums -10, 0, 100, 101, 120, 121, 140, 141
AccDecVals ==
    { <<-30, 20>>, <<0, 0>>, <<50, 50>>, <<50, 51>>, <<70, 50>>, <<70, 51>>, <<70, 70>>,
      <<70, 71>> }

RiskVals == {0, 13996, 14000, 21996, 22000, 29996, 30000, 36000, One}

\* The pipeline on a frame of one row with arbitrary feature values; the
\* widgets the pipeline does not read keep their defaults.
InitRow ==
    /\ live_mode = FALSE
    /\ refresh_rate = 30
    /\ days_to_match \in DaysOptions
    /\ match_congestion \in BOOLEAN
    /\ rtp_players \in SUBSET {1}
    /\ \E a \in AcwrVals, f \in FatigueVals, s \in SorenessVals, h \in HsrVals,
          ad \in AccDecVals :
          df = <<Row(1, a, f, s, h, ad[1], ad[2])>>
    /\ i = 1
    /\ risk = NoValue
    /\ risks = <<>>
    /\ plans = <<>>
    /\ columns = <<>>
    /\ player = 0
    /\ drivers = <<>>
    /\ written = <<>>
    /\ slept = 0
    /\ pc = "compute"

NextRow ==
    \/ ComputeRisk
    \/ PlanSession
    \/ Render
    \/ Explain

SpecRow == InitRow /\ [][NextRow]_vars

\* session_plan called with an arbitrary risk.
InitPlan ==
    /\ live_mode = FALSE
    /\ refresh_rate = 30
    /\ days_to_match \in DaysOptions
    /\ match_congestion = FALSE
    /\ rtp_players \in SUBSET {1}
    /\ df = <<Row(1, 100, 0, 0, 0, 0, 0)>>
    /\ i = 1
    /\ risk \in RiskVals
    /\ risks = <<>>
    /\ plans = <<>>
    /\ columns = <<>>
    /\ player = 0
    /\ drivers = <<>>
    /\ written = <<>>
    /\ slept = 0
    /\ pc = "plan"

NextPlan == PlanSession

SpecPlan == InitPlan /\ [][NextPlan]_vars

----------------------------------------------------------------------------
\* Properties of the risk engine (checked under SpecRow)

\* The state right after compute_injury_risk returned for the row.
Scored == pc = "plan" /\ Len(df) = 1

\* C1: for every combination of inputs, of any sign or size, the value
\* compute_injury_risk returns lies between 0.0 and 1.0 inclusive.
C1_RiskInUnitInterval ==
    Scored => (0 <= risk /\ risk <= One)

\* A negative input and a sum far above 1.0: the clamp decides the result.
C1_Witness ==
    /\ Scored
    /\ df[1].high_speed_distance < 0
    /\ df[1].fatigue_z = MaxZ * 100
    /\ df[1].acwr > 160
    /\ 1 \in rtp_players
    /\ risk = One

\* C3: with the other seven inputs fixed, the risk with rtp = true equals
\* min(1.0, 1.25 * the risk with rtp = false); both are 1.0 whenever the
\* scaled value exceeds 1.
C3_RtpScalesThenClamps ==
    (Scored /\ 1 \in rtp_players) =>
        LET r == df[1]
            base == compute_injury_risk(r.acwr, r.fatigue_z, r.soreness_z,
                             r.high_speed_distance, r.accelerations,
                             r.decelerations, match_congestion, FALSE)
            scaled == (base * 125) \div 100
        IN  /\ risk = Min(One, scaled)
            /\ (scaled > One => risk = One)

\* A return-to-play row under congestion whose scaled risk stays below 1.0.
C3_Witness ==
    /\ Scored
    /\ 1 \in rtp_players
    /\ match_congestion
    /\ risk > 6000
    /\ risk < One

\* C4: raising fatigue, soreness, high-speed distance, the sum acc + dec, or
\* the congestion flag, with every other input (acwr and rtp included) held
\* fixed, never lowers the risk.
C4_MonotoneInLoadInputs ==
    Scored =>
        LET r == df[1]
            rtp == 1 \in rtp_players
        IN  /\ \A f \in FatigueVals :
                 f >= r.fatigue_z =>
                   compute_injury_risk(r.acwr, f, r.soreness_z, r.high_speed_distance,
                            r.accelerations, r.decelerations,
                            match_congestion, rtp) >= risk
            /\ \A s \in SorenessVals :
                 s >= r.soreness_z =>
                   compute_injury_risk(r.acwr, r.fatigue_z, s, r.high_speed_distance,
                            r.accelerations, r.decelerations,
                            match_congestion, rtp) >= risk
            /\ \A h \in HsrVals :
                 h >= r.high_speed_distance =>
                   compute_injury_risk(r.acwr, r.fatigue_z, r.soreness_z, h,
                            r.accelerations, r.decelerations,
                            match_congestion, rtp) >= risk
            /\ \A ad \in AccDecVals :
                 ad[1] + ad[2] >= r.accelerations + r.decelerations =>
                   compute_injury_risk(r.acwr, r.fatigue_z, r.soreness_z,
                            r.high_speed_distance, ad[1], ad[2],
                            match_congestion, rtp) >= risk
            /\ ~match_congestion =>
                   compute_injury_risk(r.acwr, r.fatigue_z, r.soreness_z,
                            r.high_speed_distance, r.accelerations,
                            r.decelerations, TRUE, rtp) >= risk

\* A row on the 800 m boundary whose risk rises strictly with more
\* high-speed distance and with congestion.
C4_Witness ==
    /\ Scored
    /\ ~match_congestion
    /\ df[1].high_speed_distance = 800
    /\ risk < 20000
    /\ LET r == df[1] IN
         /\ compute_injury_risk(r.acwr, r.fatigue_z, r.soreness_z, 801, r.accelerations,
                     r.decelerations, match_congestion, 1 \in rtp_players) > risk
         /\ compute_injury_risk(r.acwr, r.fatigue_z, r.soreness_z, r.high_speed_distance,
                     r.accelerations, r.decelerations, TRUE,
                     1 \in rtp_players) > risk

\* C5 as stated: the risk is non-decreasing in acwr over the whole acwr
\* range, values below 0.8 included.
C5_MonotoneInAcwr ==
    Scored =>
        LET r == df[1] IN
          \A a \in AcwrVals :
            a >= r.acwr =>
              compute_injury_risk(a, r.fatigue_z, r.soreness_z, r.high_speed_distance,
                       r.accelerations, r.decelerations, match_congestion,
                       1 \in rtp_players) >= risk

\* C5 amended: for acwr1 <= acwr2 the risk for acwr1 is not greater than the
\* risk for acwr2, except when acwr1 < 0.8 and 0.8 <= acwr2 <= 1.3.
C5_MonotoneInAcwrFromLowTier ==
    Scored =>
        LET r == df[1] IN
          \A a \in AcwrVals :
            (a >= r.acwr /\ ~(r.acwr < 80 /\ 80 <= a /\ a <= 130)) =>
              compute_injury_risk(a, r.fatigue_z, r.soreness_z, r.high_speed_distance,
                       r.accelerations, r.decelerations, match_congestion,
                       1 \in rtp_players) >= risk

\* A row below 0.8 whose risk is unclamped: it rises towards the upper tiers
\* and falls towards the 0.8..1.3 band.
C5_Witness ==
    /\ Scored
    /\ df[1].acwr = -50
    /\ risk < One
    /\ LET r == df[1] IN
         /\ compute_injury_risk(131, r.fatigue_z, r.soreness_z, r.high_speed_distance,
                     r.accelerations, r.decelerations, match_congestion,
                     1 \in rtp_players) > risk
         /\ compute_injury_risk(80, r.fatigue_z, r.soreness_z, r.high_speed_distance,
                     r.accelerations, r.decelerations, match_congestion,
                     1 \in rtp_players) < risk

\* C6: exactly one ACWR tier applies: +0.40 iff acwr > 1.6, +0.25 iff
\* 1.3 < acwr <= 1.6, +0.10 iff acwr < 0.8, +0 iff 0.8 <= acwr <= 1.3; so
\* 1.6 contributes 0.25, 1.3 and 0.8 contribute 0, and 1.7 alone gives 0.40.
C6_AcwrTiers ==
    (Scored /\ 1 \notin rtp_players) =>
        LET r == df[1]
            a == r.acwr
            tiers == << [on |-> a > 160, add |-> 16000],
                        [on |-> 130 < a /\ a <= 160, add |-> 10000],
                        [on |-> a < 80, add |-> 4000],
                        [on |-> 80 <= a /\ a <= 130, add |-> 0] >>
            hit == {t \in 1 .. 4 : tiers[t].on}
            rest == compute_injury_risk(100, r.fatigue_z, r.soreness_z,
                             r.high_speed_distance, r.accelerations,
                             r.decelerations, match_congestion, FALSE)
            alone == /\ r.fatigue_z = 0 /\ r.soreness_z = 0
                     /\ r.high_speed_distance = 0
                     /\ r.accelerations = 0 /\ r.decelerations = 0
                     /\ ~match_congestion
        IN  /\ Cardinality(hit) = 1
            /\ \A t \in hit : risk = Min(One, rest + tiers[t].add)
            /\ (alone /\ a = 170) => risk = 16000
            /\ (alone /\ a = 160) => risk = 10000
            /\ (alone /\ a \in {80, 130}) => risk = 0

\* acwr = 1.7 with every other input zero or false: risk exactly 0.40.
C6_Witness ==
    /\ Scored
    /\ df[1] = Row(1, 170, 0, 0, 0, 0, 0)
    /\ ~match_congestion
    /\ rtp_players = {}
    /\ risk = 16000

----------------------------------------------------------------------------
\* Properties of the session planner (checked under SpecPlan)

\* The state right after session_plan returned for the given risk.
Planned == pc = "render" /\ Len(plans) = 1

\* C2: days_to_match == 0 gives "MATCH DAY" for every risk and rtp; rtp with
\* days_to_match in 1..6 gives "Return-to-Play" for every risk; no rtp with
\* days_to_match == 1 gives "MD-1 Activation" for every risk.
C2_PlannerPrecedence ==
    Planned =>
        LET t == plans[1][1]
            rtp == 1 \in rtp_players
        IN  /\ days_to_match = 0 => t = "MATCH DAY"
            /\ (rtp /\ days_to_match \in 1 .. 6) => t = "Return-to-Play"
            /\ (~rtp /\ days_to_match = 1) => t = "MD-1 Activation"
            /\ (risk = 36000 /\ rtp /\ days_to_match = 0) => t = "MATCH DAY"

\* session_plan(0.9, true, 0) returned "MATCH DAY".
C2_Witness ==
    /\ Planned
    /\ risk = 36000
    /\ 1 \in rtp_players
    /\ days_to_match = 0
    /\ plans[1][1] = "MATCH DAY"

\* C7: without rtp, days_to_match == 2 gives "MD-2 Modified" iff risk >= 0.55
\* and "MD-2 Tactical" otherwise; days_to_match in 3..6 gives
\* "Recovery / Medical" iff risk >= 0.75, "Modified Training" iff
\* 0.55 <= risk < 0.75, "Normal Training" iff 0.35 <= risk < 0.55 and
\* "Full Training" iff risk < 0.35.
C7_RiskTiers ==
    (Planned /\ 1 \notin rtp_players) =>
        LET t == plans[1][1] IN
          /\ days_to_match = 2 =>
               /\ (t = "MD-2 Modified") <=> (risk >= 22000)
               /\ (t = "MD-2 Tactical") <=> (risk < 22000)
               /\ t # "Recovery / Medical"
          /\ days_to_match \in 3 .. 6 =>
               /\ (t = "Recovery / Medical") <=> (risk >= 30000)
               /\ (t = "Modified Training") <=> (22000 <= risk /\ risk < 30000)
               /\ (t = "Normal Training") <=> (14000 <= risk /\ risk < 22000)
               /\ (t = "Full Training") <=> (risk < 14000)

\* Risk exactly on the 0.55 threshold two days before the match.
C7_Witness ==
    /\ Planned
    /\ rtp_players = {}
    /\ days_to_match = 2
    /\ risk = 22000
    /\ plans[1][1] = "MD-2 Modified"

----------------------------------------------------------------------------
\* Properties of the risk-driver section (checked under SpecRow)

\* The state right after the risk-driver section wrote its lines.
Explained == pc = "live" /\ Len(df) = 1 /\ player = 1

DriverLabels ==
    << "Acute workload spike (ACWR)", "Elevated fatigue",
       "Increased muscle soreness", "High-speed running exposure",
       "High neuromuscular load" >>

\* C8: the driver list holds exactly the labels whose condition holds
\* (acwr > 1.3; fatigue_z > 1; soreness_z > 1; high_speed_distance > 800;
\* accelerations + decelerations > 120), each at most once and in that fixed
\* order; the "no flags" sentinel is written iff none holds, and never
\* together with a driver label.
C8_DriverList ==
    Explained =>
        LET p == df[1]
            cond == << p.acwr > 130, p.fatigue_z > 100, p.soreness_z > 100,
                       p.high_speed_distance > 800,
                       p.accelerations + p.decelerations > 120 >>
            at(k) == {j \in 1 .. Len(drivers) : drivers[j] = DriverLabels[k]}
            none == \A k \in 1 .. 5 : ~cond[k]
        IN  /\ \A k \in 1 .. 5 : Cardinality(at(k)) = (IF cond[k] THEN 1 ELSE 0)
            /\ \A j \in 1 .. Len(drivers) :
                 \E k \in 1 .. 5 : drivers[j] = DriverLabels[k]
            /\ \A k1, k2 \in 1 .. 5 :
                 k1 < k2 => \A j1 \in at(k1), j2 \in at(k2) : j1 < j2
            /\ (\E j \in 1 .. Len(written) : written[j] = NoFlags) <=> none
            /\ none => written = <<NoFlags>>
            /\ ~none => written = drivers

\* Soreness and high-speed exposure both flagged: soreness is listed first.
C8_Witness ==
    /\ Explained
    /\ df[1].soreness_z > 100
    /\ df[1].high_speed_distance > 800
    /\ df[1].acwr <= 130
    /\ df[1].fatigue_z <= 100
    /\ written = <<"Increased muscle soreness", "High-speed running exposure">>

\* C10: a player whose session type is "Recovery / Medical" has at least one
\* risk-driver flag, so the "no flags" sentinel is never shown for such a
\* player; a non-RTP player with no driver flag has a risk of at most 0.60.
C10_RecoveryHasDriver ==
    Explained =>
        LET p == df[1]
            flag == \/ p.acwr > 130
                    \/ p.fatigue_z > 100
                    \/ p.soreness_z > 100
                    \/ p.high_speed_distance > 800
                    \/ p.accelerations + p.decelerations > 120
        IN  /\ columns[1].session_type = "Recovery / Medical" =>
                 /\ flag
                 /\ drivers # <<>>
                 /\ written # <<NoFlags>>
            /\ (~flag /\ 1 \notin rtp_players) => risk <= 24000

\* A player sent to "Recovery / Medical" whose page lists a driver.
C10_Witness ==
    /\ Explained
    /\ columns[1].session_type = "Recovery / Medical"
    /\ risks[1] >= 100 * 30000
    /\ Len(written) >= 1
    /\ written[1] = "Acute workload spike (ACWR)"

----------------------------------------------------------------------------
\* Properties of the refresh loop (checked under Spec)

\* Telemetry, risk and plan of every player, the columns, the selection and
\* the driver lines are all there, each computed from this run's frame.
CycleComplete ==
    /\ Len(df) = NumPlayers
    /\ Len(risks) = NumPlayers
    /\ Len(plans) = NumPlayers
    /\ Len(columns) = NumPlayers
    /\ \A k \in 1 .. NumPlayers :
         LET r == df[k]
             rk == compute_injury_risk(r.acwr, r.fatigue_z, r.soreness_z,
                                       r.high_speed_distance, r.accelerations,
                                       r.decelerations, match_congestion,
                                       r.player \in rtp_players)
         IN  /\ risks[k] = rk * 100
             /\ plans[k] = session_plan(rk, r.player \in rtp_players, days_to_match)
             /\ columns[k].risk_pct = risks[k]
             /\ columns[k].session_type = plans[k][1]
    /\ player \in 1 .. NumPlayers
    /\ written # <<>>

\* C9: the whole pipeline of a cycle completes before any sleep starts; with
\* live mode on, the completed cycle is followed by exactly one sleep of
\* refresh_rate seconds and then a rerun that regenerates the telemetry and
\* recomputes every risk and plan from scratch; with live mode off, the
\* cycle ends without sleeping or triggering a rerun.
C9_RefreshLoopOrdering ==
    /\ [](pc \in {"sleep", "rerun", "done"} => CycleComplete)
    /\ [](pc \notin {"rerun"} => slept = 0)
    /\ [](pc = "rerun" => (live_mode /\ slept = refresh_rate))
    /\ [](pc = "done" => ~live_mode)
    /\ [](pc = "generate" => FreshRun)
    /\ [](pc \in {"compute", "plan"} => (Len(risks) = i - 1 /\ Len(plans) = i - 1))
    /\ [][(pc = "live" /\ live_mode) => (pc' = "sleep" /\ slept' = 0)]_vars
    /\ [][(pc = "live" /\ ~live_mode) => (pc' = "done" /\ slept' = 0)]_vars
    /\ [][pc = "sleep" => (pc' = "rerun" /\ slept' = refresh_rate)]_vars
    /\ [][pc = "rerun" => (pc' = "generate" /\ df' = <<>> /\ risks' = <<>>
                           /\ plans' = <<>> /\ columns' = <<>> /\ slept' = 0
                           /\ widgets' = widgets)]_vars
    /\ [][pc' \in {"sleep", "rerun"} => pc \in {"live", "sleep"}]_vars

\* A live-mode cycle that completed and slept once, about to rerun.
C9_Witness ==
    /\ pc = "rerun"
    /\ live_mode
    /\ slept = refresh_rate
    /\ CycleComplete

====
